---- MODULE Spec2Model ----
(***************************************************************************)
(* Model of backend/scripts/createRealFSA.py: the ABIFWriter class          *)
(* (add_tag, create_fsa_file), and the script's main().                     *)
(*                                                                          *)
(* Bytes are integers 0..255, a file is the sequence of its bytes (byte at  *)
(* file offset o is element o+1), text is the sequence of its code points.  *)
(***************************************************************************)
EXTENDS Integers, Sequences, FiniteSets, TLC

\* ------------------------------------------------------------------ bounds

\* How many create_fsa_file calls a client of the class makes on one writer.
MaxCalls == 3

\* The samples per channel of the files the modelled calls write: the calls
\* run with data_points = FilePoints, so that a file is 1128 + 41 + len(sample_name) + 10 *
\* FilePoints bytes and not 81,173.  The synthesis itself is also modelled at
\* the code's data_points (SynthSpec).
FilePoints == 8

\* ------------------------------------------------------- program constants

\* self.header_size = 128 (the code then writes the literal 128)
header_size == 128
\* data_points = 8000
data_points == 8000
\* channels = 5
channels == 5
\* A reservation of 400 bytes, less than the 17 entries of 24 bytes need.
DirReserveSmall == 16 * 24 + 16
\* f.write(b'\x00' * 1000): the space reserved for the directory
DirReserve == 1000
\* struct.calcsize('>4sIIIII'): the size of a directory entry
EntrySize == 24
\* np.clip(data, 0, 32767)
Int16Max == 32767
\* 0x0101
Version == 257

\* ------------------------------------------------------------ byte helpers

Min(a, b) == IF a < b THEN a ELSE b
Max(a, b) == IF a > b THEN a ELSE b

ZeroBlock == [i \in 1..(header_size + DirReserve) |-> 0]

\* b'\x00' * n
Zeros(n) == IF n <= Len(ZeroBlock) THEN SubSeq(ZeroBlock, 1, n) ELSE [i \in 1..n |-> 0]

\* struct.pack('>B', v)
PackB(v) == <<v % 256>>

\* struct.pack('>H', v)
PackH(v) == <<(v \div 256) % 256, v % 256>>

\* struct.pack('>I', v)
PackI(v) == <<(v \div 16777216) % 256, (v \div 65536) % 256, (v \div 256) % 256, v % 256>>

\* Reading a big-endian integer back from bytes (the inverse a reader applies).
UnpackBE(bs) == IF Len(bs) = 2 THEN bs[1] * 256 + bs[2]
                ELSE ((bs[1] * 256 + bs[2]) * 256 + bs[3]) * 256 + bs[4]

\* name.encode('ascii')[:4].ljust(4, b'\x00')
Pad4(name) == SubSeq(name, 1, Min(4, Len(name))) \o Zeros(4 - Min(4, Len(name)))

\* str.encode('ascii') succeeds only on code points below 128.
IsAscii(s) == \A i \in 1..Len(s) : s[i] < 128

\* f.seek(pos); f.write(bytes) on a file of content f: a write past the end
\* zero-fills the gap, a write inside replaces, a write at the end appends.
Write(f, pos, bytes) ==
    LET n == Len(f)
        head == IF pos >= n THEN f ELSE SubSeq(f, 1, pos)
        gap == IF pos > n THEN Zeros(pos - n) ELSE <<>>
        tail == IF pos + Len(bytes) < n THEN SubSeq(f, pos + Len(bytes) + 1, n) ELSE <<>>
    IN head \o gap \o bytes \o tail

\* The bytes of file f in [off, off + size).
Slice(f, off, size) == SubSeq(f, off + 1, off + size)

\* ------------------------------------------------------- signal synthesis

\* The random source: numpy's global generator, in an unknown state at each
\* call.  A state of the generator is a seed; NormalSamples[seed] are the
\* values np.random.normal(50, 10) yields, in tenths, and RandSamples[seed]
\* the raw integers np.random.randint reduces to its range.
Seeds == {1, 2, 3}

NormalSamples == << <<503, 437, -27, 655, 499, 388, 590, 512>>,
                    <<761, 500, 342, 9, 508, 894, 451, 620>>,
                    <<1003, 120, 257, 499, 501, 734, 0>> >>

RandSamples == << <<0, 299, 49, 150, 50, 7, 263>>,
                  <<120, 1, 298, 75, 201, 33, 180>>,
                  <<299, 51, 250, 199, 100, 0, 149, 2>> >>

\* The n-th value of np.random.normal(50, 10, ...), in tenths.
NormalDraw(seed, n) == NormalSamples[seed][(n % Len(NormalSamples[seed])) + 1]

\* The j-th np.random.randint(0, hi).
RandInt(seed, j, hi) == RandSamples[seed][(j % Len(RandSamples[seed])) + 1] % hi

\* float -> .astype(np.int16): truncation toward zero (values here are in range).
AsInt16Tenths(t) == IF t >= 0 THEN t \div 10 ELSE -((-t) \div 10)

\* np.clip(data, 0, 32767) on one element.
Clip(v) == Max(0, Min(Int16Max, v))

\* exp(-0.5 * (d / 5) ** 2) and exp(-0.5 * (d / 4) ** 2) times GaussScale, rounded
\* down; with them (peak * table) \div GaussScale is int(peak * exp(...)) for every
\* peak height in 200..499.
GaussScale == 4000000

GaussTable5 == <<4000000, 3920794, 3692465, 3341080, 2904596, 2426122, 1947009,
                 1501244, 1112149, 791594, 541341, 355686, 224539, 136189, 79364,
                 44435, 23904, 12354, 6135, 2927, 1341>>

GaussTable4 == <<4000000, 3876932, 3529987, 3019358, 2426122, 1831333, 1298609,
                 865060, 541341, 318238, 175747, 91176, 44435, 20344, 8749, 3535>>

Abs(x) == IF x < 0 THEN -x ELSE x

\* (peak * np.exp(-0.5 * ((x - pos) / width) ** 2)).astype(np.int16) at one x.
Gaussian(peak, x, pos, width) ==
    LET d == Abs(x - pos)
        e == IF width = 5 THEN GaussTable5[d + 1] ELSE GaussTable4[d + 1]
    IN (peak * e) \div GaussScale

\* The overlay with np.minimum for np.maximum.
OverlayMinimum(data, peak_start, peak_end, pos, width, peak) ==
    SubSeq(data, 1, peak_start)
    \o [i \in 1..(peak_end - peak_start) |->
           Min(data[peak_start + i], Gaussian(peak, peak_start + i - 1, pos, width))]
    \o SubSeq(data, peak_end + 1, Len(data))

\* data[peak_start:peak_end] = np.maximum(data[peak_start:peak_end], gaussian)
Overlay(data, peak_start, peak_end, pos, width, peak) ==
    SubSeq(data, 1, peak_start)
    \o [i \in 1..(peak_end - peak_start) |->
           Max(data[peak_start + i], Gaussian(peak, peak_start + i - 1, pos, width))]
    \o SubSeq(data, peak_end + 1, Len(data))

peak_positions == <<1000, 2000, 3000, 4000, 5000, 6000>>

ladder_positions == <<350, 500, 750, 1000, 1390, 1500, 1600, 2000, 2500, 3000,
                      3400, 3500, 4000, 4500, 4900, 5000>>

\* The baseline of channel ch, n samples: normal draws, cast to int16, clipped.
Baseline(seed, ch, n) ==
    [i \in 1..n |-> Clip(AsInt16Tenths(NormalDraw(seed, ch * n + i - 1)))]

\* peak = 200 + np.random.randint(0, 300), for the j-th peak of channel ch
PeakHeight(seed, ch, j) == 200 + RandInt(seed, ch * 6 + j - 1, 300)

\* peak = 300 + np.random.randint(0, 200), for the j-th ladder peak
LadderHeight(seed, j) == 300 + RandInt(seed, 24 + j - 1, 200)

\* Lines 45-53: the j-th peak of an STR channel, on data of n samples.
StrPeak(data, seed, ch, j, n) ==
    LET peak_pos == peak_positions[j]
        peak_start == peak_pos - 20
        peak_end == peak_pos + 20
    IN IF peak_start >= 0 /\ peak_end < n
       THEN Overlay(data, peak_start, peak_end, peak_pos, 5, PeakHeight(seed, ch, j))
       ELSE data

\* Lines 57-64: the j-th peak of the LIZ ladder, on data of n samples.
LadderPeak(data, seed, j, n) ==
    LET pos == ladder_positions[j]
    IN IF pos < n
       THEN Overlay(data, Max(0, pos - 15), Min(n, pos + 15), pos, 4, LadderHeight(seed, j))
       ELSE data

RECURSIVE StrPeaks(_, _, _, _, _)
\* The loop over peak_positions from the j-th on.
StrPeaks(data, seed, ch, j, n) ==
    IF j > Len(peak_positions) THEN data
    ELSE StrPeaks(StrPeak(data, seed, ch, j, n), seed, ch, j + 1, n)

RECURSIVE LadderPeaks(_, _, _, _)
\* The loop over ladder_positions from the j-th on.
LadderPeaks(data, seed, j, n) ==
    IF j > Len(ladder_positions) THEN data
    ELSE LadderPeaks(LadderPeak(data, seed, j, n), seed, j + 1, n)

\* Lines 39-66 for one channel: its trace of n samples.
ChannelTrace(seed, ch, n) ==
    IF ch < 4 THEN StrPeaks(Baseline(seed, ch, n), seed, ch, 1, n)
    ELSE LadderPeaks(Baseline(seed, ch, n), seed, 1, n)

\* ------------------------------------------------------------ fixed text

ABIF == <<65, 66, 73, 70>>
SMPL == <<83, 77, 80, 76>>
MCHN == <<77, 67, 72, 78>>
MODL == <<77, 79, 68, 76>>
RUND == <<82, 85, 78, 68>>
RUNT == <<82, 85, 78, 84>>
SCAN == <<83, 67, 65, 78>>
LANE == <<76, 65, 78, 69>>
DyeN == <<68, 121, 101, 78>>
DATA == <<68, 65, 84, 65>>

\* machine = b'ABI_3130'; model = b'3130'
machine == <<65, 66, 73, 95, 51, 49, 51, 48>>
model == <<51, 49, 51, 48>>

\* The list without its last dye.
dyes4 == << <<70, 65, 77>>, <<86, 73, 67>>, <<78, 69, 68>>, <<80, 69, 84>> >>
\* dyes = ['FAM', 'VIC', 'NED', 'PET', 'LIZ']
dyes == << <<70, 65, 77>>, <<86, 73, 67>>, <<78, 69, 68>>, <<80, 69, 84>>, <<76, 73, 90>> >>

\* The default sample_name, "SAMPLE001", and other names a client passes:
\* "SAMPLE002", the empty name, and "é", which is not ASCII.
SAMPLE001 == <<83, 65, 77, 80, 76, 69, 48, 48, 49>>
SAMPLE002 == <<83, 65, 77, 80, 76, 69, 48, 48, 50>>
NonAscii == <<233>>
Names == {SAMPLE001, SAMPLE002, <<>>, NonAscii}

\* main's samples: IDENTIFILER_CHILD_001, IDENTIFILER_FATHER_001, IDENTIFILER_MOTHER_001
Identifiler == <<73, 68, 69, 78, 84, 73, 70, 73, 76, 69, 82, 95>>
Suffix001 == <<95, 48, 48, 49>>
samples == << Identifiler \o <<67, 72, 73, 76, 68>> \o Suffix001,
              Identifiler \o <<70, 65, 84, 72, 69, 82>> \o Suffix001,
              Identifiler \o <<77, 79, 84, 72, 69, 82>> \o Suffix001 >>

\* Output paths: main writes sample k to path k (one file per sample name); a
\* client of the class writes to a path of ClientPaths.
Paths == 1..Len(samples)
ClientPaths == {1}

\* What datetime.now() may return.
Nows == { [year |-> 2026, month |-> 11, day |-> 1, hour |-> 18, minute |-> 9, second |-> 30],
          [year |-> 2027, month |-> 1, day |-> 2, hour |-> 0, minute |-> 0, second |-> 59] }

\* sys.byteorder of the machine the script runs on: ndarray.tobytes() of an
\* int16 array yields the samples in native order.
ByteOrders == {"little", "big"}

\* channel_data[ch].tobytes()
ToBytes(data, order) ==
    [j \in 1..(2 * Len(data)) |->
        LET v == (data[(j + 1) \div 2] + 65536) % 65536
        IN IF (j % 2 = 1) = (order = "big") THEN v \div 256 ELSE v % 256]

\* struct.pack('>4sIIIII', name..., element_type, element_size, num_elements,
\*             data_size, data_offset)
PackEntry(name, element_type, element_size, num_elements, data_size, data_offset) ==
    Pad4(name) \o PackI(element_type) \o PackI(element_size) \o PackI(num_elements)
    \o PackI(data_size) \o PackI(data_offset)

\* struct.pack('>4sHHIIII', b'ABIF', 0x0101, dir_offset, len(self.directory), 0, 0, 0)
PackHeader(diroff, count) ==
    ABIF \o PackH(Version) \o PackH(diroff) \o PackI(count) \o PackI(0) \o PackI(0) \o PackI(0)

RECURSIVE Concat(_)
\* The bytes of a list of byte strings written one after the other.
Concat(ss) == IF ss = <<>> THEN <<>> ELSE ss[1] \o Concat(Tail(ss))

\* ------------------------------------------------------------------- state

VARIABLES
    byteorder,       \* sys.byteorder
    exists,          \* the paths that are files on disk
    fs,              \* path -> the file's bytes
    directory,       \* self.directory
    pc,              \* where control is
    output_path,     \* create_fsa_file's argument
    sample_name,     \* create_fsa_file's argument
    channel_data,    \* create_fsa_file's local
    fpos,            \* the position of the open file f
    current_offset,  \* create_fsa_file's local
    dir_offset,      \* create_fsa_file's local
    idx,             \* the loop variable (i, ch) of the loop control is in
    ret,             \* the outcome of the last call: "none" while it runs, "True", or
                     \* the exception it raised
    stdout,          \* what was printed
    calls,           \* create_fsa_file calls started on the writer
    written,         \* the payloads the current call wrote: [name, off, bytes]
    k,               \* main's loop: the index of the sample in samples
    produced,        \* the paths whose file a call that returned True wrote
    rng,             \* the synthesis alone: the state of the random source
    data,            \* the synthesis alone: the trace being built
    ch,              \* the synthesis alone: the channel
    j                \* the synthesis alone: the next peak of the channel

vars == <<byteorder, exists, fs, directory, pc, output_path, sample_name, channel_data,
          fpos, current_offset, dir_offset, idx, ret, stdout, calls, written, k,
          produced, rng, data, ch, j>>

synth == <<rng, data, ch, j>>

locals == <<channel_data, fpos, current_offset, dir_offset, idx>>

\* ABIFWriter(): self.directory = []; nothing written yet.
Init ==
    /\ byteorder \in ByteOrders
    /\ exists = {}
    /\ fs = [p \in Paths |-> <<>>]
    /\ directory = <<>>
    /\ pc = "idle"
    /\ output_path = 1
    /\ sample_name = <<>>
    /\ channel_data = <<>>
    /\ fpos = 0
    /\ current_offset = 0
    /\ dir_offset = 0
    /\ idx = 0
    /\ ret = "none"
    /\ stdout = <<>>
    /\ calls = 0
    /\ written = <<>>
    /\ k = 0
    /\ produced = {}
    /\ rng = 0
    /\ data = <<>>
    /\ ch = 0
    /\ j = 0

\* ------------------------------------------------------------- add_tag

\* self.directory.append(struct.pack(...))
add_tag(dir, name, element_type, element_size, num_elements, data_size, data_offset) ==
    Append(dir, PackEntry(name, element_type, element_size, num_elements, data_size,
                          data_offset))

\* ----------------------------------------------------- create_fsa_file

\* Entering create_fsa_file(path, name).
Enter(path, name) ==
    /\ output_path' = path
    /\ sample_name' = name
    /\ calls' = calls + 1
    /\ pc' = "call"
    /\ ret' = "none"
    /\ written' = <<>>

\* Leaving create_fsa_file by an exception: the with block closes f, the
\* locals are gone, nothing is printed.
Raise(exc) ==
    /\ pc' = "raised"
    /\ ret' = exc
    /\ channel_data' = <<>>
    /\ fpos' = 0
    /\ current_offset' = 0
    /\ dir_offset' = 0
    /\ idx' = 0

\* Lines 33-78: the traces of the five channels; open(output_path, 'wb')
\* succeeds and creates or truncates the file; the header and directory
\* placeholders are written.
OpenOk ==
    /\ pc = "call"
    /\ \E seed \in Seeds :
          channel_data' = [c \in 1..channels |-> ChannelTrace(seed, c - 1, FilePoints)]
    /\ exists' = exists \cup {output_path}
    /\ produced' = produced \ {output_path}
    /\ fs' = [fs EXCEPT ![output_path] =
                 Write(Write(<<>>, 0, Zeros(header_size)), header_size, Zeros(DirReserve))]
    /\ current_offset' = header_size + DirReserve
    /\ dir_offset' = header_size
    /\ fpos' = header_size + DirReserve
    /\ pc' = "reset"
    /\ UNCHANGED <<synth, byteorder, directory, output_path, sample_name, idx, ret,
                   stdout, calls, written, k>>

\* The failure caught around the call in main's loop, which goes on with the
\* next sample.
OpenFailSwallowed ==
    /\ pc = "call"
    /\ pc' = "idle"
    /\ k' = k + 1
    /\ ret' = "OSError(open)"
    /\ UNCHANGED <<synth, produced, byteorder, exists, fs, directory, output_path, sample_name, locals,
                   stdout, calls, written>>

\* Lines 33-69 when open(output_path, 'wb') raises OSError: no try in
\* create_fsa_file catches it.
OpenFail ==
    /\ pc = "call"
    /\ Raise("OSError(open)")
    /\ UNCHANGED <<synth, produced, byteorder, exists, fs, directory, output_path, sample_name, stdout,
                   calls, written, k>>

\* Line 81 left out: self.directory keeps the entries of the calls before.
KeepDirectory ==
    /\ pc = "reset"
    /\ pc' = "SMPL"
    /\ UNCHANGED <<synth, produced, byteorder, exists, fs, directory, output_path, sample_name, locals, ret,
                   stdout, calls, written, k>>

\* Line 81: self.directory = []
ResetDirectory ==
    /\ pc = "reset"
    /\ directory' = <<>>
    /\ pc' = "SMPL"
    /\ UNCHANGED <<synth, produced, byteorder, exists, fs, output_path, sample_name, locals, ret, stdout,
                   calls, written, k>>

\* f.seek(current_offset); f.write(bytes); self.add_tag(name, ..., current_offset);
\* current_offset += advance
WriteTag(name, element_type, element_size, num_elements, data_size, bytes, advance) ==
    /\ fs' = [fs EXCEPT ![output_path] = Write(@, current_offset, bytes)]
    /\ fpos' = current_offset + Len(bytes)
    /\ directory' = add_tag(directory, name, element_type, element_size, num_elements,
                            data_size, current_offset)
    /\ written' = Append(written, [name |-> name, off |-> current_offset, bytes |-> bytes])
    /\ current_offset' = current_offset + advance

\* Lines 84-88: the sample name; encode('ascii') raises UnicodeEncodeError on a
\* name that is not ASCII.
WriteSMPL ==
    /\ pc = "SMPL"
    /\ IF IsAscii(sample_name)
       THEN /\ WriteTag(SMPL, 19, 1, Len(sample_name), Len(sample_name), sample_name,
                        Len(sample_name))
            /\ pc' = "MCHN"
            /\ UNCHANGED <<channel_data, dir_offset, idx, ret>>
       ELSE /\ Raise("UnicodeEncodeError")
            /\ UNCHANGED <<fs, directory, written>>
    /\ UNCHANGED <<synth, produced, byteorder, exists, output_path, sample_name, stdout, calls, k>>

\* Lines 91-95
WriteMCHN ==
    /\ pc = "MCHN"
    /\ WriteTag(MCHN, 19, 1, Len(machine), Len(machine), machine, Len(machine))
    /\ pc' = "MODL"
    /\ UNCHANGED <<synth, produced, byteorder, exists, output_path, sample_name, channel_data, dir_offset,
                   idx, ret, stdout, calls, k>>

\* Lines 98-102
WriteMODL ==
    /\ pc = "MODL"
    /\ WriteTag(MODL, 19, 1, Len(model), Len(model), model, Len(model))
    /\ pc' = "RUND"
    /\ UNCHANGED <<synth, produced, byteorder, exists, output_path, sample_name, channel_data, dir_offset,
                   idx, ret, stdout, calls, k>>

\* struct.pack('>H', now.year) + struct.pack('>BB', now.month, now.day)
RunDate(now) == PackH(now.year) \o PackB(now.month) \o PackB(now.day)

\* struct.pack('>BBB', now.hour, now.minute, now.second) + b'\x00'
RunTime(now) == PackB(now.hour) \o PackB(now.minute) \o PackB(now.second) \o <<0>>

\* Lines 105-116: now = datetime.now(); the run date, then the run time.
WriteRUND ==
    /\ pc = "RUND"
    /\ \E now \in Nows :
          /\ fs' = [fs EXCEPT ![output_path] =
                       Write(Write(@, current_offset, RunDate(now)),
                             current_offset + 4, RunTime(now))]
          /\ written' = written \o
                 << [name |-> RUND, off |-> current_offset, bytes |-> RunDate(now)],
                    [name |-> RUNT, off |-> current_offset + 4, bytes |-> RunTime(now)] >>
    /\ directory' = add_tag(add_tag(directory, RUND, 2, 4, 1, 4, current_offset),
                            RUNT, 3, 4, 1, 4, current_offset + 4)
    /\ fpos' = current_offset + 8
    /\ current_offset' = current_offset + 8
    /\ pc' = "SCAN"
    /\ UNCHANGED <<synth, produced, byteorder, exists, output_path, sample_name, channel_data, dir_offset,
                   idx, ret, stdout, calls, k>>

\* Lines 119-122 with current_offset += 2, the width of a short, after the
\* four bytes of the long.
WriteSCANShortAdvance ==
    /\ pc = "SCAN"
    /\ WriteTag(SCAN, 4, 4, 1, 4, PackI(FilePoints), 2)
    /\ pc' = "LANE"
    /\ UNCHANGED <<synth, produced, byteorder, exists, output_path, sample_name, channel_data, dir_offset,
                   idx, ret, stdout, calls, k>>

\* Lines 119-122
WriteSCAN ==
    /\ pc = "SCAN"
    /\ WriteTag(SCAN, 4, 4, 1, 4, PackI(FilePoints), 4)
    /\ pc' = "LANE"
    /\ UNCHANGED <<synth, produced, byteorder, exists, output_path, sample_name, channel_data, dir_offset,
                   idx, ret, stdout, calls, k>>

\* Lines 125-128, and the start of the loop over dyes
WriteLANE ==
    /\ pc = "LANE"
    /\ WriteTag(LANE, 5, 2, 1, 2, PackH(1), 2)
    /\ pc' = "DyeN"
    /\ idx' = 0
    /\ UNCHANGED <<synth, produced, byteorder, exists, output_path, sample_name, channel_data, dir_offset,
                   ret, stdout, calls, k>>

\* Lines 132-137: one iteration of the loop over dyes; after the last, the
\* loop over channels starts.
WriteDyeN ==
    /\ pc = "DyeN"
    /\ LET dye_bytes == dyes[idx + 1]
       IN WriteTag(DyeN, 19, 1, Len(dye_bytes), Len(dye_bytes), dye_bytes, Len(dye_bytes))
    /\ idx' = IF idx + 1 < Len(dyes) THEN idx + 1 ELSE 0
    /\ pc' = IF idx + 1 < Len(dyes) THEN "DyeN" ELSE "DATA"
    /\ UNCHANGED <<synth, produced, byteorder, exists, output_path, sample_name, channel_data, dir_offset,
                   ret, stdout, calls, k>>

\* Lines 140-145: one iteration of the loop over channels
WriteDATA ==
    /\ pc = "DATA"
    /\ LET data_bytes == ToBytes(channel_data[idx + 1], byteorder)
       IN WriteTag(DATA, 4, 2, Len(channel_data[idx + 1]), Len(data_bytes), data_bytes,
                   Len(data_bytes))
    /\ idx' = idx + 1
    /\ pc' = IF idx + 1 < channels THEN "DATA" ELSE "directory"
    /\ UNCHANGED <<synth, produced, byteorder, exists, output_path, sample_name, channel_data, dir_offset,
                   ret, stdout, calls, k>>

\* Lines 148-150: f.seek(dir_offset); for entry in self.directory: f.write(entry)
WriteDirectory ==
    /\ pc = "directory"
    /\ fs' = [fs EXCEPT ![output_path] = Write(@, dir_offset, Concat(directory))]
    /\ fpos' = dir_offset + Len(Concat(directory))
    /\ pc' = "header"
    /\ UNCHANGED <<synth, produced, byteorder, exists, directory, output_path, sample_name, channel_data,
                   current_offset, dir_offset, idx, ret, stdout, calls, written, k>>

\* Lines 153-166: the header, padded to 128 bytes; f is closed, the message
\* printed, True returned.
WriteHeader ==
    /\ pc = "header"
    /\ LET header == PackHeader(dir_offset, Len(directory))
       IN fs' = [fs EXCEPT ![output_path] =
                    Write(Write(@, 0, header), Len(header), Zeros(header_size - Len(header)))]
    /\ stdout' = Append(stdout, <<"Created", output_path>>)
    /\ pc' = "returned"
    /\ ret' = "True"
    /\ produced' = produced \cup {output_path}
    /\ channel_data' = <<>>
    /\ fpos' = 0
    /\ current_offset' = 0
    /\ dir_offset' = 0
    /\ idx' = 0
    /\ UNCHANGED <<synth, byteorder, exists, directory, output_path, sample_name, calls, written, k>>

\* Where control is while f is open for writing.
Writing == {"reset", "SMPL", "MCHN", "MODL", "RUND", "SCAN", "LANE", "DyeN", "DATA",
            "directory", "header"}

\* An f.seek or f.write raises OSError (the disk is full, the device is gone):
\* the with block closes f, what was written stays in the file.
WriteFail ==
    /\ pc \in Writing \ {"reset"}
    /\ Raise("OSError(write)")
    /\ UNCHANGED <<synth, produced, byteorder, exists, fs, directory, output_path, sample_name, stdout,
                   calls, written, k>>

\* ------------------------------------------------------------- a client

\* A client of the class calls create_fsa_file on its writer, again after a
\* call returned or after it caught the call's exception.
ClientCall ==
    /\ pc \in {"idle", "returned", "raised"}
    /\ calls < MaxCalls
    /\ \E path \in ClientPaths, name \in Names : Enter(path, name)
    /\ UNCHANGED <<synth, produced, byteorder, exists, fs, directory, locals, stdout, k>>

Next ==
    \/ ClientCall
    \/ OpenOk \/ OpenFail \/ ResetDirectory \/ WriteSMPL \/ WriteMCHN \/ WriteMODL
    \/ WriteRUND \/ WriteSCAN \/ WriteLANE \/ WriteDyeN \/ WriteDATA \/ WriteDirectory
    \/ WriteHeader \/ WriteFail

Spec == Init /\ [][Next]_vars

\* ------------------------------------------- two files, side by side

\* A client builds two containers, the second at another path than the first.
PairCall ==
    /\ pc \in {"idle", "returned", "raised"}
    /\ calls < 2
    /\ \E name \in Names : Enter(calls + 1, name)
    /\ UNCHANGED <<synth, produced, byteorder, exists, fs, directory, locals, stdout, k>>

\* Two calls during which the disk does not fail.
PairNext ==
    \/ PairCall
    \/ OpenOk \/ ResetDirectory \/ WriteSMPL \/ WriteMCHN \/ WriteMODL \/ WriteRUND
    \/ WriteSCAN \/ WriteLANE \/ WriteDyeN \/ WriteDATA \/ WriteDirectory \/ WriteHeader

PairSpec == Init /\ [][PairNext]_vars

\* ---------------------------------------------------------------- main

\* Lines 180-183: the next sample of the batch; the message, then the call.
MainCall ==
    /\ pc = "idle"
    /\ k < Len(samples)
    /\ stdout' = Append(stdout, <<"Creating", k + 1>>)
    /\ Enter(k + 1, samples[k + 1])
    /\ UNCHANGED <<synth, produced, byteorder, exists, fs, directory, locals, k>>

\* Lines 186-191: the file is read back and its first four bytes compared
\* with b'ABIF'.
MainVerify ==
    /\ pc = "returned"
    /\ LET header == SubSeq(fs[output_path], 1, Min(4, Len(fs[output_path])))
       IN stdout' = Append(stdout, <<IF header = ABIF THEN "Valid" ELSE "Invalid", k + 1>>)
    /\ k' = k + 1
    /\ pc' = "idle"
    /\ UNCHANGED <<synth, produced, byteorder, exists, fs, directory, output_path, sample_name, locals, ret,
                   calls, written>>

\* Lines 193-194: after the last sample.
MainFinish ==
    /\ pc = "idle"
    /\ k = Len(samples)
    /\ stdout' = Append(stdout, <<"Success", 0>>)
    /\ pc' = "exit"
    /\ UNCHANGED <<synth, produced, byteorder, exists, fs, directory, output_path, sample_name, locals, ret,
                   calls, written, k>>

\* main(): an exception of create_fsa_file is caught nowhere, so from
\* pc = "raised" the script takes no further step.
MainNext ==
    \/ MainCall \/ MainVerify \/ MainFinish
    \/ OpenOk \/ OpenFail \/ ResetDirectory \/ WriteSMPL \/ WriteMCHN \/ WriteMODL
    \/ WriteRUND \/ WriteSCAN \/ WriteLANE \/ WriteDyeN \/ WriteDATA \/ WriteDirectory
    \/ WriteHeader \/ WriteFail

MainSpec == Init /\ [][MainNext]_vars

\* ----------------------------------------------- the synthesis, step by step

\* Lines 33-66 alone, at the code's data_points: the loop over the channels,
\* one step per np.random.normal call, per peak, per append.

\* The random source is in some state when the synthesis starts.
SynthStart ==
    /\ pc = "idle"
    /\ rng = 0
    /\ rng' \in Seeds
    /\ pc' = "baseline"
    /\ UNCHANGED <<byteorder, exists, fs, directory, output_path, sample_name, channel_data,
                   fpos, current_offset, dir_offset, idx, ret, stdout, calls, written, k,
                   produced, data, ch, j>>

\* Lines 40-41
SynthBaseline ==
    /\ pc = "baseline"
    /\ data' = Baseline(rng, ch, data_points)
    /\ j' = 1
    /\ pc' = IF ch < 4 THEN "peaks" ELSE "ladder"
    /\ UNCHANGED <<byteorder, exists, fs, directory, output_path, sample_name, channel_data,
                   fpos, current_offset, dir_offset, idx, ret, stdout, calls, written, k,
                   produced, rng, ch>>

\* Lines 45-53: one iteration of the loop over the peak positions
SynthPeak ==
    /\ pc = "peaks"
    /\ j <= Len(peak_positions)
    /\ data' = StrPeak(data, rng, ch, j, data_points)
    /\ j' = j + 1
    /\ UNCHANGED <<byteorder, exists, fs, directory, pc, output_path, sample_name,
                   channel_data, fpos, current_offset, dir_offset, idx, ret, stdout, calls,
                   written, k, produced, rng, ch>>

\* Lines 57-64: one iteration of the loop over the ladder positions
SynthLadder ==
    /\ pc = "ladder"
    /\ j <= Len(ladder_positions)
    /\ data' = LadderPeak(data, rng, j, data_points)
    /\ j' = j + 1
    /\ UNCHANGED <<byteorder, exists, fs, directory, pc, output_path, sample_name,
                   channel_data, fpos, current_offset, dir_offset, idx, ret, stdout, calls,
                   written, k, produced, rng, ch>>

\* Line 66: channel_data.append(data), and the next channel
SynthAppend ==
    /\ \/ pc = "peaks" /\ j > Len(peak_positions)
       \/ pc = "ladder" /\ j > Len(ladder_positions)
    /\ channel_data' = Append(channel_data, data)
    /\ data' = <<>>
    /\ j' = 0
    /\ ch' = ch + 1
    /\ pc' = IF ch + 1 < channels THEN "baseline" ELSE "synthesized"
    /\ UNCHANGED <<byteorder, exists, fs, directory, output_path, sample_name, fpos,
                   current_offset, dir_offset, idx, ret, stdout, calls, written, k,
                   produced, rng>>

SynthNext == SynthStart \/ SynthBaseline \/ SynthPeak \/ SynthLadder \/ SynthAppend

SynthSpec == Init /\ [][SynthNext]_vars

\* -------------------------------------------------- reading a file back

\* A directory entry's fields, as struct.unpack('>4sIIIII', entry) yields them.
EntryName(e) == SubSeq(e, 1, 4)
EntryType(e) == UnpackBE(SubSeq(e, 5, 8))
ElementSize(e) == UnpackBE(SubSeq(e, 9, 12))
NumElements(e) == UnpackBE(SubSeq(e, 13, 16))
DataSize(e) == UnpackBE(SubSeq(e, 17, 20))
DataOffset(e) == UnpackBE(SubSeq(e, 21, 24))

\* The n-th directory entry of file f (n from 1), read at the directory offset.
EntryAt(f, n) == Slice(f, header_size + EntrySize * (n - 1), EntrySize)

\* The entry count where struct.pack('>4sHHIIII', ...) puts it: bytes 8-11.
HeaderCount(f) == UnpackBE(Slice(f, 8, 4))

\* The tag names of file f's directory, in order.
TagNames(f) == [i \in 1..HeaderCount(f) |-> EntryName(EntryAt(f, i))]

\* The file the current or last call writes.
TheFile == fs[output_path]

\* The byte ranges [a, b) and [c, d) share no byte.
Disjoint(a, b, c, d) == b <= c \/ d <= a \/ a = b \/ c = d

\* The payloads written by the current call, one after the other.
WrittenBytes == Concat([i \in 1..Len(written) |-> written[i].bytes])

\* The 17 tags in the order create_fsa_file produces them.
TagOrder == <<SMPL, MCHN, MODL, RUND, RUNT, SCAN, LANE, DyeN, DyeN, DyeN, DyeN, DyeN,
              DATA, DATA, DATA, DATA, DATA>>

\* The largest sample of trace in the window [lo, hi) (0-based).
RECURSIVE WindowMax(_, _, _)
WindowMax(trace, lo, hi) ==
    IF hi - lo = 1 THEN trace[lo + 1] ELSE Max(trace[lo + 1], WindowMax(trace, lo + 1, hi))

\* ------------------------------------------------------------------ claims

\* C1: in a file produced by a successful create_fsa_file call the first 128
\* bytes are: bytes 0-3 'ABIF', bytes 4-5 the big-endian version, bytes 6-9 the
\* directory offset 128 as a 4-byte big-endian integer, bytes 10-13 the number
\* of directory entries written as a 4-byte big-endian integer, the rest zero.
\* (The code packs the offset with 'H': two bytes at 6-7, the count at 8-11.)
C1_HeaderLayout ==
    ret = "True" =>
        /\ Len(TheFile) >= 128
        /\ Slice(TheFile, 0, 4) = ABIF
        /\ UnpackBE(Slice(TheFile, 4, 2)) = Version
        /\ UnpackBE(Slice(TheFile, 6, 4)) = 128
        /\ UnpackBE(Slice(TheFile, 10, 4)) = Len(directory)
        /\ Slice(TheFile, 14, 114) = Zeros(114)

\* C2: after a successful call, every directory entry's range
\* [data_offset, data_offset + data_size) lies in the payload heap (from offset
\* 1128 to the end of the file), holds exactly the bytes written for that
\* tag's payload, and shares no byte with another entry's range; for every
\* sample name, the empty one included.
C2_PayloadRanges ==
    ret = "True" =>
        /\ HeaderCount(TheFile) = Len(written)
        /\ \A i \in 1..HeaderCount(TheFile) :
              LET e == EntryAt(TheFile, i)
              IN /\ DataOffset(e) >= 1128
                 /\ DataOffset(e) + DataSize(e) <= Len(TheFile)
                 /\ DataOffset(e) = written[i].off
                 /\ Slice(TheFile, DataOffset(e), DataSize(e)) = written[i].bytes
                 /\ \A m \in 1..HeaderCount(TheFile) :
                       m # i =>
                          LET d == EntryAt(TheFile, m)
                          IN Disjoint(DataOffset(e), DataOffset(e) + DataSize(e),
                                      DataOffset(d), DataOffset(d) + DataSize(d))

\* C2's case: a call with the empty sample name returned True.
C2_Witness ==
    /\ ret = "True"
    /\ sample_name = <<>>
    /\ DataSize(EntryAt(TheFile, 1)) = 0
    /\ HeaderCount(TheFile) = 17

\* C3: the two bytes written for sample i of channel c's DATA entry are the
\* big-endian encoding of the sample: high byte, then low byte.
C3_DataBigEndian ==
    pc \in {"directory", "header"} =>
        \A c \in 1..channels :
            LET e == directory[Len(directory) - channels + c]
            IN \A i \in 1..Len(channel_data[c]) :
                  Slice(TheFile, DataOffset(e) + 2 * (i - 1), 2) = PackH(channel_data[c][i])

\* C4: among the directory entries create_fsa_file emits the type code
\* determines the element size: entries of one type code have one element_size.
C4_TypeDeterminesWidth ==
    \A i, m \in 1..Len(directory) :
        EntryType(directory[i]) = EntryType(directory[m])
            => ElementSize(directory[i]) = ElementSize(directory[m])

\* C5 as claimed: any two files produced with sample identifiers of any
\* lengths have the same total length, the same number of directory entries
\* and the same tag names in the same order.
C5_SameLengthAnyNames ==
    \A p, q \in produced :
        /\ Len(fs[p]) = Len(fs[q])
        /\ HeaderCount(fs[p]) = HeaderCount(fs[q])
        /\ TagNames(fs[p]) = TagNames(fs[q])

\* C5 as amended: any two produced files have the same number of directory
\* entries with the same tag names in the same order; when their sample
\* identifiers have the same length the files also have the same total length,
\* identical header and directory, and differ at most in the payloads of SMPL,
\* of RUND and RUNT, and of DATA.
C5_SameStructure ==
    \A p, q \in produced :
        LET f == fs[p]
            g == fs[q]
            off(h, n) == DataOffset(EntryAt(h, n))
        IN /\ HeaderCount(f) = HeaderCount(g)
           /\ TagNames(f) = TagNames(g)
           /\ DataSize(EntryAt(f, 1)) = DataSize(EntryAt(g, 1)) =>
                 /\ Len(f) = Len(g)
                 /\ Slice(f, 0, header_size + DirReserve) = Slice(g, 0, header_size + DirReserve)
                 /\ Slice(f, off(f, 2), off(f, 4) - off(f, 2))
                      = Slice(g, off(g, 2), off(g, 4) - off(g, 2))
                 /\ Slice(f, off(f, 6), off(f, 13) - off(f, 6))
                      = Slice(g, off(g, 6), off(g, 13) - off(g, 6))

\* C5's case: two files produced for different identifiers of one length.
C5_Witness ==
    \E p, q \in produced :
        /\ p # q
        /\ DataSize(EntryAt(fs[p], 1)) = DataSize(EntryAt(fs[q], 1))
        /\ Slice(fs[p], 1128, DataSize(EntryAt(fs[p], 1)))
             # Slice(fs[q], 1128, DataSize(EntryAt(fs[q], 1)))

\* C6 as claimed: built with "SAMPLE001", the header's entry count is
\* 5 dye names + 5 trace arrays + 6 metadata entries = 16.
C6_SixteenEntries ==
    (ret = "True" /\ sample_name = SAMPLE001) => HeaderCount(TheFile) = 5 + 5 + 6

\* C6 as amended: the count is 5 dye names + 5 trace arrays + 7 metadata
\* entries (SMPL, MCHN, MODL, RUND, RUNT, SCAN, LANE) = 17.
C6_SeventeenEntries ==
    (ret = "True" /\ sample_name = SAMPLE001) =>
        /\ HeaderCount(TheFile) = 5 + 5 + 7
        /\ Cardinality({i \in 1..HeaderCount(TheFile) : TagNames(TheFile)[i] = DyeN}) = 5
        /\ Cardinality({i \in 1..HeaderCount(TheFile) : TagNames(TheFile)[i] = DATA}) = 5
        /\ {TagNames(TheFile)[i] : i \in 1..HeaderCount(TheFile)} \ {DyeN, DATA}
             = {SMPL, MCHN, MODL, RUND, RUNT, SCAN, LANE}

\* C6's case: a call with "SAMPLE001" returned True.
C6_Witness ==
    /\ ret = "True"
    /\ sample_name = SAMPLE001
    /\ Slice(TheFile, 1128, 9) = SAMPLE001

\* The peaks of STR channel c (from 1) that trace carries: all of them once
\* the channel is appended, those before the j-th while it is being built.
PeakWindowsAtLeast(v) ==
    /\ (pc = "peaks" /\ ch < 4) =>
          \A jj \in 1..(j - 1) :
              WindowMax(data, peak_positions[jj] - 20, peak_positions[jj] + 20) >= v
    /\ \A c \in 1..Len(channel_data) :
          (Len(channel_data[c]) = data_points /\ c <= 4) =>
              \A jj \in 1..Len(peak_positions) :
                  WindowMax(channel_data[c], peak_positions[jj] - 20, peak_positions[jj] + 20)
                      >= v

\* C7 as claimed: for every STR channel 0..3 and every peak position P of
\* 1000..6000, for every peak height and baseline, the maximum sample in
\* [P-20, P+20) is at least the mean baseline 50 plus the minimum peak height
\* 200, i.e. 250.
C7_PeakAboveBaseline == PeakWindowsAtLeast(50 + 200)

\* C7 as amended: the maximum sample in [P-20, P+20) is at least the peak's
\* height, so at least the minimum peak height 200, and the sample at P is at
\* least the height drawn for that peak: the peak is combined with the
\* baseline by an element-wise maximum, it is not added to it.
C7_PeakAtLeastHeight ==
    /\ PeakWindowsAtLeast(200)
    /\ (pc = "peaks" /\ ch < 4) =>
          \A jj \in 1..(j - 1) :
              /\ data[peak_positions[jj] + 1] >= PeakHeight(rng, ch, jj)
              /\ PeakHeight(rng, ch, jj) \in 200..499
              /\ Len(data) = data_points

\* C7's case: a peak of height 200 over a baseline of about 50: the maximum of
\* the window is 200.
C7_Witness ==
    /\ pc = "peaks"
    /\ ch < 4
    /\ j > 1
    /\ WindowMax(data, peak_positions[1] - 20, peak_positions[1] + 20) = 200
    /\ data[peak_positions[1] - 20 + 1] < 100

\* C8: when open fails for the k-th sample of main's batch, create_fsa_file
\* does not return True, main takes no further step (no later file is created
\* or validated, the final message is not printed), and the files on disk are
\* as they were.
C8_OpenFailureSurfaces ==
    [][ /\ ret # "OSError(open)"
        /\ ret' = "OSError(open)" =>
              /\ pc' = "raised"
              /\ fs' = fs
              /\ exists' = exists
              /\ stdout' = stdout
              /\ k' = k
              /\ calls' = k + 1
              /\ \A p \in Paths : p > output_path => p \notin exists'
              /\ \A i \in 1..Len(stdout') :
                    /\ stdout'[i][1] # "Success"
                    /\ stdout'[i][1] \in {"Valid", "Invalid"} => stdout'[i][2] <= k ]_vars

\* C8's case: open failed for main's second sample, the first file on disk.
C8_Witness ==
    /\ ret = "OSError(open)"
    /\ pc = "raised"
    /\ k = 1
    /\ exists = {1}
    /\ Slice(fs[1], 0, 4) = ABIF

\* C9: the directory is written after all payloads, contiguously from offset
\* 128 as 24-byte records in the order the payloads were produced (SMPL, MCHN,
\* MODL, RUND, RUNT, SCAN, LANE, DyeN x5, DATA x5), inside the reserved region
\* [128, 1128): the directory write overwrites no payload byte, the header
\* write no directory byte.
C9_DirectoryRegion ==
    /\ pc \in Writing \ {"header"} =>
          Slice(TheFile, header_size, DirReserve) = Zeros(DirReserve)
    /\ (pc = "header" \/ ret = "True") =>
          /\ [i \in 1..Len(directory) |-> EntryName(directory[i])] = TagOrder
          /\ [i \in 1..Len(written) |-> written[i].name] = TagOrder
          /\ \A i \in 1..Len(directory) : DataOffset(directory[i]) = written[i].off
          /\ EntrySize * Len(directory) <= DirReserve
          /\ Slice(TheFile, header_size, DirReserve)
               = Concat(directory) \o Zeros(DirReserve - EntrySize * Len(directory))
          /\ Slice(TheFile, header_size + DirReserve,
                   Len(TheFile) - header_size - DirReserve) = WrittenBytes
    /\ ret = "True" => Slice(TheFile, 0, 4) = ABIF

\* C9's case: the directory and the header were written.
C9_Witness ==
    /\ ret = "True"
    /\ EntryName(EntryAt(TheFile, 1)) = SMPL
    /\ EntryName(EntryAt(TheFile, 17)) = DATA
    /\ Len(TheFile) = header_size + DirReserve + Len(sample_name) + 41
                        + 2 * channels * FilePoints

\* C10: after any sequence of calls on one writer, failed ones included, the
\* directory in the file of a successful call and the entry count in its
\* header describe the payloads of that call only: one entry per payload it
\* wrote, with that payload's name, size and offset, and nothing after them.
C10_NoLeak ==
    ret = "True" =>
        /\ HeaderCount(TheFile) = Len(written)
        /\ Len(directory) = Len(written)
        /\ \A i \in 1..Len(written) :
              LET e == EntryAt(TheFile, i)
              IN /\ EntryName(e) = written[i].name
                 /\ DataSize(e) = Len(written[i].bytes)
                 /\ DataOffset(e) = written[i].off
        /\ LET used == EntrySize * Len(written)
           IN Slice(TheFile, header_size + used, DirReserve - used) = Zeros(DirReserve - used)

\* C10's case: the second call on the writer returned True after the first
\* raised (one "Created" message for two calls).
C10_Witness ==
    /\ ret = "True"
    /\ calls = 2
    /\ Len(stdout) = 1
    /\ directory # <<>>
====
